---- MODULE Spec2Model ----
(***************************************************************************)
(* Model of the AI mail assistant backend: the request handlers of         *)
(* backend/app.py, the streaming pipeline of services/email_processor.py   *)
(* and the generation backends and output normalizer of services/llm.py.   *)
(*                                                                         *)
(* Text is a sequence of symbols.  A symbol is one character, or a fixed   *)
(* run of characters that no operation of the program ever splits (a       *)
(* template chunk, a run of letters, a tag).  Weight gives the number of   *)
(* characters a symbol stands for.                                         *)
(***************************************************************************)
EXTENDS Integers, Sequences, FiniteSets, TLC

\* ------------------------------------------------------------------------
\* Bounds of the model
\* ------------------------------------------------------------------------
MaxBodyLen == 4
MaxLines == 6
MaxProse == 2
MaxChunks == 2

\* ------------------------------------------------------------------------
\* Text helpers (Python str methods used by the program)
\* ------------------------------------------------------------------------
Min(S) == CHOOSE x \in S : \A y \in S : x <= y
Max(S) == CHOOSE x \in S : \A y \in S : x >= y

SeqsUpTo(S, n) == UNION {[1..k -> S] : k \in 0..n}

\* characters str.strip() removes
Whitespace == {" ", "\n"}

Weight(c) == CASE c = "w118" -> 118
               [] c = "<li>" -> 4
               [] OTHER -> 1

RECURSIVE CharLen(_)
CharLen(s) == IF s = <<>> THEN 0 ELSE Weight(Head(s)) + CharLen(Tail(s))

LStripChars(s, cs) ==
    LET keep == {i \in 1..Len(s) : s[i] \notin cs}
    IN IF keep = {} THEN <<>> ELSE SubSeq(s, Min(keep), Len(s))

StripChars(s, cs) ==
    LET keep == {i \in 1..Len(s) : s[i] \notin cs}
    IN IF keep = {} THEN <<>> ELSE SubSeq(s, Min(keep), Max(keep))

Strip(s) == StripChars(s, Whitespace)

RECURSIVE Split(_, _)
Split(s, sep) ==
    LET at == {i \in 1..Len(s) : s[i] = sep}
    IN IF at = {} THEN <<s>>
       ELSE <<SubSeq(s, 1, Min(at) - 1)>> \o Split(SubSeq(s, Min(at) + 1, Len(s)), sep)

RECURSIVE SplitLines(_)
SplitLines(s) ==
    LET at == {i \in 1..Len(s) : s[i] = "\n"}
    IN IF s = <<>> THEN <<>>
       ELSE IF at = {} THEN <<s>>
       ELSE <<SubSeq(s, 1, Min(at) - 1)>> \o SplitLines(SubSeq(s, Min(at) + 1, Len(s)))

RECURSIVE Concat(_)
Concat(ss) == IF ss = <<>> THEN <<>> ELSE Head(ss) \o Concat(Tail(ss))

StartsWith(s, p) == Len(s) >= Len(p) /\ SubSeq(s, 1, Len(p)) = p
EndsWith(s, c) == s # <<>> /\ s[Len(s)] = c
IsUpper(c) == c = "A"

Count(s, c) == Cardinality({i \in 1..Len(s) : s[i] = c})

\* ------------------------------------------------------------------------
\* MockLlmClient (services/llm.py)
\* ------------------------------------------------------------------------
BulletPrefixes == {<<"-", " ">>, <<"*", " ">>, <<"bullet", " ">>}
BulletStripChars == {"-", "*", "bullet", " "}
SentenceLimit == 120
DraftItemLimit == 5

DefaultActionItems ==
    << <<"Review the email content and confirm next steps.">>,
       <<"Reply with a brief acknowledgment and proposed timeline.">> >>

\* the bullet test with the space after the marker forgotten
IsBulletLine_AnyMarker(line) == line[1] \in {"-", "*", "bullet"}

IsBulletLine(line) == \E p \in BulletPrefixes : StartsWith(line, p)

IsSentenceLine(line) ==
    /\ EndsWith(line, ".")
    /\ IsUpper(line[1])
    /\ CharLen(line) <= SentenceLimit

BulletItem(line) == Strip(LStripChars(line, BulletStripChars))

RECURSIVE ExtractItems(_)
ExtractItems(lines) ==
    IF lines = <<>> THEN <<>>
    ELSE LET line == Strip(Head(lines))
             rest == ExtractItems(Tail(lines))
         IN IF line = <<>> THEN rest
            ELSE IF IsBulletLine(line) THEN <<BulletItem(line)>> \o rest
            ELSE IF IsSentenceLine(line) THEN <<line>> \o rest
            ELSE rest

DraftReply(subject, items) ==
    <<"<p>Hi,</p>\n<p>Thanks for your email regarding <strong>">> \o subject
    \o <<"</strong>. Here's a quick recap and next steps:</p>\n", "<ul>">>
    \o Concat([i \in 1..Min({Len(items), DraftItemLimit}) |->
                   <<"<li>">> \o items[i] \o <<"</li>">>])
    \o <<"</ul>\n", "<p>Best regards,<br/>AI Mail assistant</p>">>

MockGenerate(email) ==
    LET body == Strip(email.body)
        found == ExtractItems(SplitLines(body))
        action_items == IF found = <<>> THEN DefaultActionItems ELSE found
    IN [exc |-> "none",
        summary |-> <<"Summary of: ">> \o email.subject,
        action_items |-> action_items,
        draft_reply_html |-> DraftReply(email.subject, action_items),
        citations |-> <<>>,
        debug |-> [provider |-> "mock", model |-> "none", raw |-> <<>>]]

MockAstream(email) ==
    LET text == <<"Hi,", " ", "Thanks", " ", "for", " ", "your", " ", "email", " ",
                  "about", " ">> \o email.subject
                \o <<".", " ", "I'll", " ", "follow", " ", "up", " ", "shortly", " ",
                     "with", " ", "next", " ", "steps.", " ", "Best,", " ", "AI", " ",
                     "Mail", " ", "assistant">>
        toks == Split(text, " ")
    IN [i \in 1..Len(toks) |-> toks[i] \o <<" ">>]

\* ------------------------------------------------------------------------
\* json.loads (the subset of JSON the text alphabet can spell: objects,
\* arrays, strings without escapes, integers, null)
\* ------------------------------------------------------------------------
JsonWs == {" "}

V(t, s, items, keys) == [t |-> t, s |-> s, items |-> items, keys |-> keys]
NoValue == V("none", <<>>, <<>>, <<>>)
Fail == [ok |-> FALSE, v |-> NoValue, pos |-> 0]
Ok(v, pos) == [ok |-> TRUE, v |-> v, pos |-> pos]

SkipWs(s, i) ==
    LET stop == {j \in i..Len(s) : s[j] \notin JsonWs}
    IN IF stop = {} THEN Len(s) + 1 ELSE Min(stop)

ParseString(s, i) ==
    LET close == {j \in (i + 1)..Len(s) : s[j] = "\""}
    IN IF close = {} THEN Fail
       ELSE Ok(V("str", SubSeq(s, i + 1, Min(close) - 1), <<>>, <<>>), Min(close) + 1)

ParseNumber(s, i) ==
    LET stop == {j \in i..Len(s) : s[j] # "1"}
        end == IF stop = {} THEN Len(s) + 1 ELSE Min(stop)
    IN Ok(V("num", SubSeq(s, i, end - 1), <<>>, <<>>), end)

\* dict[key] = value: a repeated key keeps its position and takes the new value
PutMember(obj, key, val) ==
    LET at == {k \in 1..Len(obj.keys) : obj.keys[k] = key}
    IN IF at = {} THEN V("obj", <<>>, Append(obj.items, val), Append(obj.keys, key))
       ELSE V("obj", <<>>, [obj.items EXCEPT ![Min(at)] = val], obj.keys)

RECURSIVE ParseValue(_, _)
RECURSIVE ParseElems(_, _, _)
RECURSIVE ParseMembers(_, _, _)
RECURSIVE ElemsSep(_, _, _)
RECURSIVE MemberSep(_, _, _)

ParseValue(s, i) ==
    IF i > Len(s) THEN Fail
    ELSE IF s[i] = "\"" THEN ParseString(s, i)
    ELSE IF s[i] = "1" THEN ParseNumber(s, i)
    ELSE IF s[i] = "null" THEN Ok(V("null", <<>>, <<>>, <<>>), i + 1)
    ELSE IF s[i] = "[" THEN
        LET j == SkipWs(s, i + 1)
        IN IF j <= Len(s) /\ s[j] = "]" THEN Ok(V("arr", <<>>, <<>>, <<>>), j + 1)
           ELSE ParseElems(s, j, <<>>)
    ELSE IF s[i] = "{" THEN
        LET j == SkipWs(s, i + 1)
        IN IF j <= Len(s) /\ s[j] = "}" THEN Ok(V("obj", <<>>, <<>>, <<>>), j + 1)
           ELSE ParseMembers(s, j, V("obj", <<>>, <<>>, <<>>))
    ELSE Fail

\* after an element: "," and the next element, or "]"
ElemsSep(s, acc, j) ==
    IF j > Len(s) THEN Fail
    ELSE IF s[j] = "," THEN ParseElems(s, SkipWs(s, j + 1), acc)
    ELSE IF s[j] = "]" THEN Ok(V("arr", <<>>, acc, <<>>), j + 1)
    ELSE Fail

ElemsAfter(s, acc, r) ==
    IF ~r.ok THEN Fail ELSE ElemsSep(s, Append(acc, r.v), SkipWs(s, r.pos))

ParseElems(s, i, acc) == ElemsAfter(s, acc, ParseValue(s, i))

\* after a member: "," and the next member, or "}"
MemberSep(s, obj, j) ==
    IF j > Len(s) THEN Fail
    ELSE IF s[j] = "," THEN ParseMembers(s, SkipWs(s, j + 1), obj)
    ELSE IF s[j] = "}" THEN Ok(obj, j + 1)
    ELSE Fail

MemberAfter(s, obj, key, r) ==
    IF ~r.ok THEN Fail ELSE MemberSep(s, PutMember(obj, key, r.v), SkipWs(s, r.pos))

MemberValue(s, obj, key, c) ==
    IF c > Len(s) \/ s[c] # ":" THEN Fail
    ELSE MemberAfter(s, obj, key, ParseValue(s, SkipWs(s, c + 1)))

MemberKey(s, obj, k) ==
    IF ~k.ok THEN Fail ELSE MemberValue(s, obj, k.v.s, SkipWs(s, k.pos))

ParseMembers(s, i, obj) ==
    IF i > Len(s) \/ s[i] # "\"" THEN Fail
    ELSE MemberKey(s, obj, ParseString(s, i))

\* one value, surrounded by optional whitespace, or an error
WholeText(text, r) ==
    IF r.ok /\ SkipWs(text, r.pos) = Len(text) + 1 THEN r ELSE Fail

\* json.loads(text)
JsonLoads(text) == WholeText(text, ParseValue(text, SkipWs(text, 1)))

\* ------------------------------------------------------------------------
\* str() and repr() of a decoded JSON value
\* ------------------------------------------------------------------------
RECURSIVE PyRepr(_)
RECURSIVE ReprJoin(_, _)
PyRepr(v) ==
    CASE v.t = "str" -> <<"'">> \o v.s \o <<"'">>
      [] v.t = "num" -> v.s
      [] v.t = "null" -> <<"None">>
      [] v.t = "arr" -> <<"[">> \o ReprJoin(v, 1) \o <<"]">>
      [] v.t = "obj" -> <<"{">> \o ReprJoin(v, 1) \o <<"}">>

ReprJoin(v, k) ==
    IF k > Len(v.items) THEN <<>>
    ELSE (IF k > 1 THEN <<",", " ">> ELSE <<>>)
         \o (IF v.t = "obj" THEN <<"'">> \o v.keys[k] \o <<"'", ":", " ">> ELSE <<>>)
         \o PyRepr(v.items[k])
         \o ReprJoin(v, k + 1)

PyStr(v) == IF v.t = "str" THEN v.s ELSE PyRepr(v)

\* ------------------------------------------------------------------------
\* _parse_generation_to_result (services/llm.py)
\* ------------------------------------------------------------------------
RawLimit == 1000
NoRaw == <<"(no raw)">>

Result(summary, action_items, draft, provider, model, raw) ==
    [exc |-> "none", summary |-> summary, action_items |-> action_items,
     draft_reply_html |-> draft, citations |-> <<>>,
     debug |-> [provider |-> provider, model |-> model, raw |-> raw]]

\* a call that ended by raising exception e
Raised(e) ==
    [exc |-> e, summary |-> <<>>, action_items |-> <<>>, draft_reply_html |-> <<>>,
     citations |-> <<>>, debug |-> [provider |-> "none", model |-> "none", raw |-> <<>>]]

\* text[:n], n counted in characters
RECURSIVE TakeChars(_, _)
TakeChars(s, n) ==
    IF s = <<>> \/ Weight(Head(s)) > n THEN <<>>
    ELSE <<Head(s)>> \o TakeChars(Tail(s), n - Weight(Head(s)))

\* re.search(r"\{[\s\S]*\}", text): from the first "{" to the last "}"
BraceMatch(text) ==
    LET open == {i \in 1..Len(text) : text[i] = "{"}
        close == {i \in 1..Len(text) : text[i] = "}"}
    IN IF open = {} \/ close = {} \/ Max(close) < Min(open)
       THEN [found |-> FALSE, group |-> <<>>]
       ELSE [found |-> TRUE, group |-> SubSeq(text, Min(open), Max(close))]

\* obj.get(key, default): defined on a dict only
HasGet(v) == v.t = "obj"
Get(obj, key, default) ==
    LET at == {k \in 1..Len(obj.keys) : obj.keys[k] = key}
    IN IF at = {} THEN default ELSE obj.items[Min(at)]

EmptyStr == V("str", <<>>, <<>>, <<>>)
EmptyList == V("arr", <<>>, <<>>, <<>>)

Coerce(obj) ==
    IF ~HasGet(obj) THEN Raised("AttributeError")
    ELSE LET summary == Get(obj, <<"summary">>, EmptyStr)
             items == Get(obj, <<"action_items">>, EmptyList)
             draft == Get(obj, <<"draft_reply_html">>, EmptyStr)
             listed == IF items.t = "arr"
                       THEN [k \in 1..Len(items.items) |-> PyStr(items.items[k])]
                       ELSE <<PyStr(items)>>
         IN Result(PyStr(summary), listed, PyStr(draft), "external", "none", NoRaw)

\* line 112: json.loads of the matched span, outside the try
FromMatch(inner) ==
    IF ~inner.ok THEN Raised("JSONDecodeError") ELSE Coerce(inner.v)

\* the except branch: the regex search, then the plain-text wrap or the span
FromSearch(text, m) ==
    IF ~m.found
    THEN Result(<<"Generated draft">>, <<>>, <<"<p>">> \o text \o <<"</p>">>,
                "external", "none", TakeChars(text, RawLimit))
    ELSE FromMatch(JsonLoads(m.group))

\* the try: json.loads of the whole text
FromWhole(text, whole) ==
    IF whole.ok THEN Coerce(whole.v) ELSE FromSearch(text, BraceMatch(text))

ParseGenerationToResult(text) == FromWhole(text, JsonLoads(text))

\* ------------------------------------------------------------------------
\* Environment, request and backend construction
\* ------------------------------------------------------------------------
None == "<None>"

\* bool(x) of an optional string
Truthy(x) == x # None /\ x # ""
\* a or b
OrElse(a, b) == IF Truthy(a) THEN a ELSE b
\* os.getenv(name, default): the default only when the variable is unset
GetEnv(value, default) == IF value = None THEN default ELSE value

\* str.lower() on the provider names used as inputs
Lower(s) == CASE s = "Gemini" -> "gemini"
              [] s = "Groq" -> "groq"
              [] OTHER -> s

GeminiNames == {"gemini", "google", "googleai"}
HostedKinds == {"gemini", "groq"}

NoLlm == [kind |-> "none", model |-> None]
Built(kind, model) == [exc |-> "none", llm |-> [kind |-> kind, model |-> model]]
NotBuilt == [exc |-> "RuntimeError", llm |-> NoLlm]

\* GeminiLlmClient.__init__ with the credential check deferred to call time
GeminiInit_KeyNotChecked(e, model_name) ==
    IF ~e.genai_installed THEN NotBuilt
    ELSE Built("gemini", OrElse(model_name, GetEnv(e.GEMINI_MODEL, "gemini-1.5-flash")))

\* GeminiLlmClient.__init__
GeminiInit(e, model_name) ==
    IF ~Truthy(e.GEMINI_API_KEY) THEN NotBuilt
    ELSE IF ~e.genai_installed THEN NotBuilt
    ELSE Built("gemini", OrElse(model_name, GetEnv(e.GEMINI_MODEL, "gemini-1.5-flash")))

\* GroqLlmClient.__init__
GroqInit(e, model_name) ==
    IF ~Truthy(e.GROQ_API_KEY) THEN NotBuilt
    ELSE IF ~e.groq_installed THEN NotBuilt
    ELSE Built("groq", OrElse(model_name, GetEnv(e.GROQ_MODEL, "llama-3.1-70b-versatile")))

\* the provider name get_llm dispatches on
GetLlmProvider(e, provider) == Lower(OrElse(provider, GetEnv(e.LLM_PROVIDER, "mock")))

GetLlm(e, provider, model_name) ==
    LET name == GetLlmProvider(e, provider)
    IN IF name = "mock" THEN Built("mock", None)
       ELSE IF name \in GeminiNames THEN GeminiInit(e, model_name)
       ELSE IF name = "groq" THEN GroqInit(e, model_name)
       ELSE Built("mock", None)

\* the handlers' provider and model resolution (app.py)
SelectedInput(p, e) == OrElse(p.provider, e.LLM_PROVIDER)

EffectiveProvider(p, e) ==
    IF ~Truthy(SelectedInput(p, e)) /\ Truthy(e.GEMINI_API_KEY) THEN "gemini"
    ELSE Lower(OrElse(SelectedInput(p, e), "mock"))

SelectedModel(p, e) ==
    OrElse(p.model_name,
           IF EffectiveProvider(p, e) = "gemini" THEN e.GEMINI_MODEL ELSE None)

HandlerGetLlm(p, e) == GetLlm(e, OrElse(SelectedInput(p, e), ""), SelectedModel(p, e))

\* ------------------------------------------------------------------------
\* Hosted backends: generate and the token streams
\* ------------------------------------------------------------------------
\* what one upstream completion call can do: raise, or answer with a text
UpstreamTexts ==
    { <<>>,
      <<"x", " ", "x">>,
      <<"1">>,
      <<"{", "x", "}">>,
      <<"{", "\"", "summary", "\"", ":", "\"", "x", "\"", ",",
        "\"", "draft_reply_html", "\"", ":", "\"", "<", "x", ">", "x", " ", "x", "\"", "}">> }
UpstreamOutcomes ==
    {[raise |-> TRUE, text |-> <<>>]} \cup {[raise |-> FALSE, text |-> t] : t \in UpstreamTexts}
NoOutcome == [raise |-> FALSE, text |-> <<>>]
ChunkTexts == {<<>>, <<"x">>, <<"x", " ", " ", "x">>}

\* result.setdefault("debug", {})["provider"] = ..., ["model"] = ...
Stamp(llm, r) ==
    IF r.exc # "none" THEN r
    ELSE [r EXCEPT !.debug.provider = llm.kind, !.debug.model = llm.model]

HostedGenerate(llm, o) ==
    IF o.raise THEN Raised("UpstreamError")
    ELSE Stamp(llm, ParseGenerationToResult(o.text))

Generate(llm, email, o) ==
    IF llm.kind = "mock" THEN MockGenerate(email) ELSE HostedGenerate(llm, o)

OutcomesOf(llm) == IF llm.kind = "mock" THEN {NoOutcome} ELSE UpstreamOutcomes
CallsOf(llm) == IF llm.kind = "mock" THEN 0 ELSE 1

NonEmpty(t) == t # <<>>
WithSpace(toks) == [i \in 1..Len(toks) |-> toks[i] \o <<" ">>]

\* for t in text.split(" "): if t: yield t + " "
ChunkTokens(text) == WithSpace(SelectSeq(Split(text, " "), NonEmpty))

\* re.sub(r"<[^>]+>", " ", text)
RECURSIVE StripMarkup(_)
StripMarkup(s) ==
    LET close == {j \in 2..Len(s) : s[j] = ">"}
    IN IF s = <<>> THEN <<>>
       ELSE IF s[1] = "<" /\ close # {} /\ Min(close) > 2
            THEN <<" ">> \o StripMarkup(SubSeq(s, Min(close) + 1, Len(s)))
       ELSE <<Head(s)>> \o StripMarkup(Tail(s))

\* re.split(r"\s+", text), empty pieces dropped by the caller
SplitWhitespace(s) ==
    SelectSeq(Split([i \in 1..Len(s) |-> IF s[i] \in Whitespace THEN " " ELSE s[i]], " "),
              NonEmpty)

FallbackTokens(draft) == WithSpace(SplitWhitespace(StripMarkup(draft)))

\* ------------------------------------------------------------------------
\* State
\* ------------------------------------------------------------------------
VARIABLES
    endpoint,            \* which handler serves the request
    payload,             \* ProcessEmailRequest
    env,                 \* process environment and installed client libraries
    pc,                  \* position of the handler / of the streamer generator
    effective_provider,  \* handler local, announced in the first status event
    selected_model,      \* handler local
    llm,                 \* the backend instance built by get_llm
    events,              \* events written to the response stream so far
    pending,             \* tokens astream is about to yield
    chunks,              \* upstream stream chunks consumed
    upstream_calls,      \* calls made to a hosted provider
    stream_raised,       \* the live upstream stream raised
    response,            \* body of the one-shot response
    error,               \* exception that ended the request
    n_text, n_result,    \* input and outcome of the normalizer
    m_email, m_result, m_tokens  \* input and outcomes of the deterministic backend

hvars == <<endpoint, payload, env, pc, effective_provider, selected_model, llm, events,
           pending, chunks, upstream_calls, stream_raised, response, error>>
nvars == <<n_text, n_result>>
mvars == <<m_email, m_result, m_tokens>>
vars == <<hvars, nvars, mvars>>

NoResult == Raised("not called")
NoMessage == [text |-> "", provider |-> None, model |-> None]
Event(name, message, content, data) ==
    [event |-> name, message |-> message, content |-> content, data |-> data]
StatusEvent(text, provider, model) ==
    Event("status_update", [text |-> text, provider |-> provider, model |-> model],
          <<>>, NoResult)
TokenEvent(content) == Event("token", NoMessage, content, NoResult)
FinalEvent(data) == Event("final", NoMessage, <<>>, data)

RequestProviders == {None, "", "mock", "Gemini", "google", "groq", "other"}
EnvProviders == {None, "", "googleai", "Groq", "other"}
Credentials == {None, "", "key"}
Emails == { [subject |-> <<"a", " ", "a">>, body |-> <<"-", " ", "a", "\n", "a">>] }

Payloads ==
    [provider : RequestProviders, model_name : {None, "m"}, email : Emails]
Envs ==
    [LLM_PROVIDER : EnvProviders, GEMINI_API_KEY : Credentials, GROQ_API_KEY : Credentials,
     GEMINI_MODEL : {None, "gm"}, GROQ_MODEL : {None},
     genai_installed : BOOLEAN, groq_installed : BOOLEAN]

HandlerIdle ==
    /\ endpoint = "none"
    /\ payload = [provider |-> None, model_name |-> None,
                  email |-> [subject |-> <<>>, body |-> <<>>]]
    /\ env = [LLM_PROVIDER |-> None, GEMINI_API_KEY |-> None, GROQ_API_KEY |-> None,
              GEMINI_MODEL |-> None, GROQ_MODEL |-> None,
              genai_installed |-> FALSE, groq_installed |-> FALSE]
    /\ pc = "idle"
    /\ effective_provider = None
    /\ selected_model = None
    /\ llm = NoLlm
    /\ events = <<>>
    /\ pending = <<>>
    /\ chunks = 0
    /\ upstream_calls = 0
    /\ stream_raised = FALSE
    /\ response = NoResult
    /\ error = "none"

NormalizerIdle == n_text = <<>> /\ n_result = NoResult
MockIdle ==
    /\ m_email = [subject |-> <<>>, body |-> <<>>]
    /\ m_result = NoResult
    /\ m_tokens = <<>>

\* a validated request has arrived at one of the two endpoints
Init ==
    /\ endpoint \in {"oneshot", "stream"}
    /\ payload \in Payloads
    /\ env \in Envs
    /\ pc = "start"
    /\ effective_provider = None
    /\ selected_model = None
    /\ llm = NoLlm
    /\ events = <<>>
    /\ pending = <<>>
    /\ chunks = 0
    /\ upstream_calls = 0
    /\ stream_raised = FALSE
    /\ response = NoResult
    /\ error = "none"
    /\ NormalizerIdle
    /\ MockIdle

\* ------------------------------------------------------------------------
\* The one-shot endpoint
\* ------------------------------------------------------------------------
\* process_email_for_addin with process_email_non_streaming (the elapsed-time
\* entry added to debug is a clock reading and is left out)
ProcessEmailForAddin ==
    /\ pc = "start" /\ endpoint = "oneshot"
    /\ effective_provider' = EffectiveProvider(payload, env)
    /\ selected_model' = SelectedModel(payload, env)
    /\ \E built \in {HandlerGetLlm(payload, env)} :
          /\ llm' = built.llm
          /\ IF built.exc # "none"
             THEN /\ pc' = "failed"
                  /\ error' = built.exc
                  /\ UNCHANGED <<response, upstream_calls>>
             ELSE \E res \in {Generate(built.llm, payload.email, o) : o \in OutcomesOf(built.llm)} :
                     /\ upstream_calls' = upstream_calls + CallsOf(built.llm)
                     /\ IF res.exc # "none"
                        THEN pc' = "failed" /\ error' = res.exc /\ UNCHANGED response
                        ELSE pc' = "responded" /\ response' = res /\ UNCHANGED error
    /\ UNCHANGED <<endpoint, payload, env, events, pending, chunks, stream_raised>>
    /\ UNCHANGED <<nvars, mvars>>

\* ------------------------------------------------------------------------
\* The streaming endpoint
\* ------------------------------------------------------------------------
\* process_email_for_addin_stream up to the return of the StreamingResponse
ProcessEmailForAddinStream ==
    /\ pc = "start" /\ endpoint = "stream"
    /\ effective_provider' = EffectiveProvider(payload, env)
    /\ selected_model' = SelectedModel(payload, env)
    /\ \E built \in {HandlerGetLlm(payload, env)} :
          /\ llm' = built.llm
          /\ IF built.exc # "none"
             THEN pc' = "failed" /\ error' = built.exc
             ELSE pc' = "streamer" /\ UNCHANGED error
    /\ UNCHANGED <<endpoint, payload, env, events, pending, chunks, upstream_calls,
                   stream_raised, response>>
    /\ UNCHANGED <<nvars, mvars>>

\* streamer: the first yield
StreamerStart ==
    /\ pc = "streamer"
    /\ events' = Append(events,
                        StatusEvent("initialising LLM agent", effective_provider, selected_model))
    /\ pc' = "astream"
    /\ UNCHANGED <<endpoint, payload, env, effective_provider, selected_model, llm, pending,
                   chunks, upstream_calls, stream_raised, response, error>>
    /\ UNCHANGED <<nvars, mvars>>

\* MockLlmClient.astream: the canned sentence, word by word
MockAstreamStart ==
    /\ pc = "astream" /\ llm.kind = "mock"
    /\ pending' = MockAstream(payload.email)
    /\ pc' = "tokens"
    /\ UNCHANGED <<endpoint, payload, env, effective_provider, selected_model, llm, events,
                   chunks, upstream_calls, stream_raised, response, error>>
    /\ UNCHANGED <<nvars, mvars>>

\* GeminiLlmClient.astream: generate_content(prompt, stream=True), inside the try
GeminiAstreamStart ==
    /\ pc = "astream" /\ llm.kind = "gemini"
    /\ upstream_calls' = upstream_calls + 1
    /\ \E raise \in BOOLEAN :
          /\ stream_raised' = raise
          /\ pc' = IF raise THEN "fallback" ELSE "chunks"
    /\ UNCHANGED <<endpoint, payload, env, effective_provider, selected_model, llm, events,
                   pending, chunks, response, error>>
    /\ UNCHANGED <<nvars, mvars>>

\* GeminiLlmClient.astream: the next chunk of the stream, its end, or its failure
GeminiNextChunk ==
    /\ pc = "chunks" /\ llm.kind = "gemini" /\ pending = <<>>
    /\ \/ /\ chunks < MaxChunks
          /\ \E c \in ChunkTexts : pending' = ChunkTokens(c)
          /\ chunks' = chunks + 1
          /\ UNCHANGED <<pc, stream_raised>>
       \/ /\ stream_raised' = TRUE
          /\ pc' = "fallback"
          /\ UNCHANGED <<pending, chunks>>
       \/ /\ pc' = "tokens"
          /\ UNCHANGED <<pending, chunks, stream_raised>>
    /\ UNCHANGED <<endpoint, payload, env, effective_provider, selected_model, llm, events,
                   upstream_calls, response, error>>
    /\ UNCHANGED <<nvars, mvars>>

\* GeminiLlmClient.astream: the except branch
GeminiFallback ==
    /\ pc = "fallback" /\ llm.kind = "gemini"
    /\ upstream_calls' = upstream_calls + 1
    /\ \E res \in {HostedGenerate(llm, o) : o \in UpstreamOutcomes} :
          IF res.exc # "none"
          THEN pc' = "aborted" /\ error' = res.exc /\ UNCHANGED pending
          ELSE /\ pc' = "tokens"
               /\ pending' = FallbackTokens(res.draft_reply_html)
               /\ UNCHANGED error
    /\ UNCHANGED <<endpoint, payload, env, effective_provider, selected_model, llm, events,
                   chunks, stream_raised, response>>
    /\ UNCHANGED <<nvars, mvars>>

\* GroqLlmClient.astream: completions.create(stream=True), no handler around it
GroqAstreamStart ==
    /\ pc = "astream" /\ llm.kind = "groq"
    /\ upstream_calls' = upstream_calls + 1
    /\ \E raise \in BOOLEAN :
          /\ stream_raised' = raise
          /\ IF raise
             THEN pc' = "aborted" /\ error' = "UpstreamStreamError"
             ELSE pc' = "chunks" /\ UNCHANGED error
    /\ UNCHANGED <<endpoint, payload, env, effective_provider, selected_model, llm, events,
                   pending, chunks, response>>
    /\ UNCHANGED <<nvars, mvars>>

\* GroqLlmClient.astream: the next chunk of the stream, its end, or its failure
GroqNextChunk ==
    /\ pc = "chunks" /\ llm.kind = "groq" /\ pending = <<>>
    /\ \/ /\ chunks < MaxChunks
          /\ \E c \in ChunkTexts : pending' = ChunkTokens(c)
          /\ chunks' = chunks + 1
          /\ UNCHANGED <<pc, stream_raised, error>>
       \/ /\ stream_raised' = TRUE
          /\ pc' = "aborted"
          /\ error' = "UpstreamStreamError"
          /\ UNCHANGED <<pending, chunks>>
       \/ /\ pc' = "tokens"
          /\ UNCHANGED <<pending, chunks, stream_raised, error>>
    /\ UNCHANGED <<endpoint, payload, env, effective_provider, selected_model, llm, events,
                   upstream_calls, response>>
    /\ UNCHANGED <<nvars, mvars>>

\* one token travels astream -> process_email_streaming -> streamer -> client
EmitToken ==
    /\ pc \in {"tokens", "chunks"} /\ pending # <<>>
    /\ events' = Append(events, TokenEvent(Head(pending)))
    /\ pending' = Tail(pending)
    /\ UNCHANGED <<endpoint, payload, env, pc, effective_provider, selected_model, llm,
                   chunks, upstream_calls, stream_raised, response, error>>
    /\ UNCHANGED <<nvars, mvars>>

\* process_email_streaming after the token loop: generate, then the final event
FinalGenerate ==
    /\ pc = "tokens" /\ pending = <<>>
    /\ upstream_calls' = upstream_calls + CallsOf(llm)
    /\ \E res \in {Generate(llm, payload.email, o) : o \in OutcomesOf(llm)} :
          IF res.exc # "none"
          THEN pc' = "aborted" /\ error' = res.exc /\ UNCHANGED events
          ELSE /\ pc' = "closing"
               /\ events' = Append(events, FinalEvent(res))
               /\ UNCHANGED error
    /\ UNCHANGED <<endpoint, payload, env, effective_provider, selected_model, llm, pending,
                   chunks, stream_raised, response>>
    /\ UNCHANGED <<nvars, mvars>>

\* streamer: the last yield
StreamerClose ==
    /\ pc = "closing"
    /\ events' = Append(events, StatusEvent("done", None, None))
    /\ pc' = "done"
    /\ UNCHANGED <<endpoint, payload, env, effective_provider, selected_model, llm, pending,
                   chunks, upstream_calls, stream_raised, response, error>>
    /\ UNCHANGED <<nvars, mvars>>

Next ==
    \/ ProcessEmailForAddin
    \/ ProcessEmailForAddinStream
    \/ StreamerStart
    \/ MockAstreamStart
    \/ GeminiAstreamStart
    \/ GeminiNextChunk
    \/ GeminiFallback
    \/ GroqAstreamStart
    \/ GroqNextChunk
    \/ EmitToken
    \/ FinalGenerate
    \/ StreamerClose

Spec == Init /\ [][Next]_vars

\* ------------------------------------------------------------------------
\* The output normalizer on its own
\* ------------------------------------------------------------------------
ProseChars == {"{", "}", "x", " "}
Prose == SeqsUpTo(ProseChars, MaxProse)

\* GenerationResult-shaped objects and their JSON text
ShapedObjects ==
    [summary : {<<"x">>, <<"}", "x">>},
     action_items : {<<>>, << <<"x">> >>},
     draft_reply_html : {<<>>, <<"<", "x", ">", "x">>}]

Quoted(str) == <<"\"">> \o str \o <<"\"">>
RECURSIVE JoinWith(_, _)
JoinWith(ss, sep) ==
    IF ss = <<>> THEN <<>>
    ELSE IF Len(ss) = 1 THEN ss[1]
    ELSE ss[1] \o sep \o JoinWith(Tail(ss), sep)

Serialize(J) ==
    <<"{">> \o Quoted(<<"summary">>) \o <<":", " ">> \o Quoted(J.summary) \o <<",", " ">>
    \o Quoted(<<"action_items">>) \o <<":", " ", "[">>
    \o JoinWith([i \in 1..Len(J.action_items) |-> Quoted(J.action_items[i])], <<",", " ">>)
    \o <<"]", ",", " ">>
    \o Quoted(<<"draft_reply_html">>) \o <<":", " ">> \o Quoted(J.draft_reply_html) \o <<"}">>

OtherCores ==
    { <<>>, <<"1">>, <<"null">>, <<"\"", "x", "\"">>, <<"[", "1", "]">>, <<"[">>,
      <<"{", "\"", "action_items", "\"", ":", "1", "}">> }
Cores == {Serialize(J) : J \in ShapedObjects} \cup OtherCores

NormalizerInputs == {pre \o core \o suf : pre \in Prose, suf \in Prose, core \in Cores}

InitNormalizer ==
    /\ HandlerIdle
    /\ MockIdle
    /\ n_text \in NormalizerInputs
    /\ n_result = NoResult

Normalize ==
    /\ n_result = NoResult
    /\ n_result' = ParseGenerationToResult(n_text)
    /\ UNCHANGED <<n_text, hvars, mvars>>

NextNormalizer == Normalize

SpecNormalizer == InitNormalizer /\ [][NextNormalizer]_vars

\* ------------------------------------------------------------------------
\* The deterministic backend on its own
\* ------------------------------------------------------------------------
BodyChars == {"-", "*", "bullet", " ", "\n", "a", "A", ".", "<li>", "w118"}
LineSamples == {<<"-", " ", "<li>">>, <<"A", "a", ".">>, <<"*", "a">>, <<"a">>}
Subjects == {<<"a">>, <<"a", " ", "<li>">>}

Bodies ==
    SeqsUpTo(BodyChars, MaxBodyLen)
    \cup {JoinWith(ls, <<"\n">>) : ls \in SeqsUpTo(LineSamples, MaxLines)}

InitMock ==
    /\ HandlerIdle
    /\ NormalizerIdle
    /\ m_email \in [subject : Subjects, body : Bodies]
    /\ m_result = NoResult
    /\ m_tokens = <<>>

MockGenerateCall ==
    /\ m_result = NoResult
    /\ m_result' = MockGenerate(m_email)
    /\ UNCHANGED <<m_email, m_tokens, hvars, nvars>>

MockAstreamCall ==
    /\ m_result # NoResult /\ m_tokens = <<>>
    /\ m_tokens' = MockAstream(m_email)
    /\ UNCHANGED <<m_email, m_result, hvars, nvars>>

NextMock == MockGenerateCall \/ MockAstreamCall

SpecMock == InitMock /\ [][NextMock]_vars

\* ========================================================================
\* Properties
\* ========================================================================
Called(r) == r # NoResult
IsSuffix(t, s) == Len(t) <= Len(s) /\ SubSeq(s, Len(s) - Len(t) + 1, Len(s)) = t
Canonical(name) == IF name \in GeminiNames THEN "gemini" ELSE name

\* a complete GenerationResult: produced by a call that returned
CompleteResult(r) ==
    /\ r.exc = "none"
    /\ DOMAIN r = {"exc", "summary", "action_items", "draft_reply_html", "citations", "debug"}

WellFormedStream(evs) ==
    /\ Len(evs) >= 3
    /\ evs[1].event = "status_update"
    /\ evs[Len(evs)].event = "status_update"
    /\ evs[Len(evs) - 1].event = "final"
    /\ CompleteResult(evs[Len(evs) - 1].data)
    /\ \A i \in 2..(Len(evs) - 2) : evs[i].event = "token"

\* C1: once the streaming endpoint has accepted a request, whatever the backend
\* does (raising included), the stream that ends is: one status_update, then
\* token events, then one final event carrying a complete GenerationResult,
\* then one closing status_update.
C1_StreamShape ==
    (endpoint = "stream" /\ pc \in {"done", "aborted"}) => WellFormedStream(events)

\* C2: with no provider in the request, LLM_PROVIDER unset and GEMINI_API_KEY
\* present, the backend the handler builds and calls is the Gemini backend.
C2_CredentialSelectsGemini ==
    (/\ ~Truthy(payload.provider)
     /\ env.LLM_PROVIDER = None
     /\ Truthy(env.GEMINI_API_KEY)
     /\ llm.kind # "none") => llm.kind = "gemini"

\* C3: for a hosted backend, an upstream streaming call that raises (at
\* creation or at a chunk) is not propagated by astream: the stream is not
\* ended by that error, astream goes on to the non-streaming fallback.
C3_StreamErrorSwallowed ==
    (llm.kind \in HostedKinds /\ stream_raised) =>
        /\ error # "UpstreamStreamError"
        /\ pc = "fallback" \/ upstream_calls >= 2

\* C4: the normalizer returns a result and never raises, whatever the text.
C4_NormalizerNeverRaises ==
    Called(n_result) => n_result.exc = "none"

\* C5: for a GenerationResult-shaped object J and any prose before and after
\* it (braces included), the normalizer applied to prefix + serialize(J) +
\* suffix returns J's summary and J's draft_reply_html.
C5_RoundTrip ==
    Called(n_result) =>
        \A pre \in Prose : StartsWith(n_text, pre) =>
            \A suf \in Prose : (Len(pre) + Len(suf) <= Len(n_text) /\ IsSuffix(suf, n_text)) =>
                \A J \in ShapedObjects :
                    SubSeq(n_text, Len(pre) + 1, Len(n_text) - Len(suf)) = Serialize(J) =>
                        /\ n_result.exc = "none"
                        /\ n_result.summary = J.summary
                        /\ n_result.draft_reply_html = J.draft_reply_html

\* C6: when the provider the handler resolved is a hosted one and its
\* credential variable is absent, the request fails while the backend is
\* built: no backend exists, no upstream call is made, no event is emitted
\* and no response body is produced.
C6_MissingCredential ==
    \/ /\ Canonical(effective_provider) = "gemini"
       /\ ~Truthy(env.GEMINI_API_KEY)
    \/ /\ effective_provider = "groq"
       /\ ~Truthy(env.GROQ_API_KEY)
C6_FailsAtConstruction ==
    (pc # "start" /\ C6_MissingCredential) =>
        /\ pc = "failed"
        /\ error = "RuntimeError"
        /\ llm = NoLlm
        /\ upstream_calls = 0
        /\ events = <<>>
        /\ response = NoResult
C6_Witness ==
    /\ endpoint = "stream"
    /\ pc = "failed"
    /\ effective_provider = "groq"
    /\ ~Truthy(env.GROQ_API_KEY)
    /\ env.groq_installed

\* C7: for every line of the body that starts with "- " and carries text,
\* action_items contains that line with only the leading marker and the
\* surrounding whitespace removed.
C7_BulletLineKept ==
    Called(m_result) =>
        \A k \in DOMAIN SplitLines(m_email.body) :
            LET line == SplitLines(m_email.body)[k]
                text == Strip(SubSeq(line, 3, Len(line)))
            IN (StartsWith(line, <<"-", " ">>) /\ text # <<>>) =>
                   \E i \in DOMAIN m_result.action_items : m_result.action_items[i] = text

\* C8: draft_reply_html contains at most 5 <li> elements, whatever the
\* subject and the body.
C8_AtMostFiveLi ==
    Called(m_result) => Count(m_result.draft_reply_html, "<li>") <= 5

\* the trimmed, non-empty lines of the body
C9_Lines ==
    LET raw == SplitLines(m_email.body)
    IN SelectSeq([k \in DOMAIN raw |-> Strip(raw[k])], NonEmpty)
C9_Markers == {"-", "*", "bullet"}
C9_Sentence(line) ==
    line[Len(line)] = "." /\ line[1] = "A" /\ CharLen(line) <= 120
C9_StartsWithMarker(line) == line[1] \in C9_Markers
C9_StartsWithMarkerAndSpace(line) ==
    Len(line) >= 2 /\ line[1] \in C9_Markers /\ line[2] = " "
C9_QualifiesAsWritten(line) == C9_StartsWithMarker(line) \/ C9_Sentence(line)
C9_QualifiesAmended(line) == C9_StartsWithMarkerAndSpace(line) \/ C9_Sentence(line)
C9_OnePerLine(Qualifies(_)) ==
    Called(m_result) =>
        LET q == SelectSeq(C9_Lines, Qualifies)
            items == m_result.action_items
        IN IF q = <<>> THEN items = DefaultActionItems
           ELSE /\ Len(items) = Len(q)
                /\ \A i \in DOMAIN q :
                      /\ IsSuffix(items[i], q[i])
                      /\ ~C9_StartsWithMarker(q[i]) => items[i] = q[i]

\* C9 as written: action_items has, in body order, one entry per trimmed
\* non-empty line that starts with a bullet marker, or that ends with a
\* period, starts with an uppercase letter and has at most 120 characters;
\* with no such line it is the two default strings.
C9_AsWritten == C9_OnePerLine(C9_QualifiesAsWritten)

\* C9 amended: the same, where a bullet line is one that starts with a
\* marker followed by a space.
C9_Amended == C9_OnePerLine(C9_QualifiesAmended)
C9_Witness ==
    /\ Called(m_result)
    /\ \E i \in DOMAIN C9_Lines :
          C9_StartsWithMarker(C9_Lines[i]) /\ ~C9_StartsWithMarkerAndSpace(C9_Lines[i])
    /\ \E i \in DOMAIN C9_Lines : C9_StartsWithMarkerAndSpace(C9_Lines[i])
    /\ \E i \in DOMAIN C9_Lines : i > 1 /\ C9_Sentence(C9_Lines[i])
    /\ Len(m_result.action_items) = 2

\* C10: on the streaming endpoint the provider announced in the first
\* status_update is the provider of the backend that produces the tokens and
\* the final result, and debug.provider of the final payload names it too.
C10_AnnouncedProviderRuns ==
    (endpoint = "stream" /\ events # <<>>) =>
        /\ Canonical(events[1].message.provider) = llm.kind
        /\ \A i \in DOMAIN events :
              events[i].event = "final" =>
                  events[i].data.debug.provider = Canonical(events[1].message.provider)

====
